---------------------------- MODULE Spec2Model ----------------------------
(***************************************************************************)
(* A model of the LoginForm component (components/auth/login-form) and of  *)
(* the LoginPage that renders it.                                          *)
(*                                                                         *)
(* The state is the four useState cells of the component, the element tree *)
(* of its last render (the props handed to the inputs, the checkbox and    *)
(* the submit button, and the values closed over by handleSubmit), the     *)
(* onSubmit calls whose promise is still pending, and a log of the effects *)
(* handleSubmit has performed, in program order.                           *)
(*                                                                         *)
(* One step of the model is one browser task: an event handler runs to its *)
(* first await (or to its end) and React commits the re-render of the      *)
(* state it set (change and submit are discrete events, rendered           *)
(* synchronously); or a pending promise settles and the continuation of    *)
(* handleSubmit (the finally block) runs in the microtask checkpoint of    *)
(* the same task.                                                          *)
(***************************************************************************)
EXTENDS Naturals, Sequences, FiniteSets

\* Bound on the number of submit events of one behaviour.
MaxSubmits == 2

\* Texts a user can leave in the email and password inputs.
Emails == {"", "a@b.com"}
Passwords == {"", "secret"}

\* How the promise returned by a supplied handler can settle.
Outcomes == {"resolved", "rejected"}

VARIABLES
    onSubmit,    \* the onSubmit prop: "undefined" or "handler"
    isLoading,   \* useState(false)
    email,       \* useState("")
    password,    \* useState("")
    remember,    \* useState(false)
    view,        \* the element tree of the last committed render
    inflight,    \* submissions whose onSubmit promise has not settled
    nsub,        \* submit events handled so far
    log          \* effects of handleSubmit, in program order

vars == <<onSubmit, isLoading, email, password, remember, view, inflight, nsub, log>>

fields == <<email, password, remember>>

-----------------------------------------------------------------------------
(* The render function *)

\* A render with the remember checkbox left enabled while loading.
RenderCheckboxEnabled(il, em, pw, rm) ==
    [ emailInput    |-> [disabled |-> il, value |-> em],
      passwordInput |-> [disabled |-> il, value |-> pw],
      checkbox      |-> [disabled |-> FALSE, checked |-> rm],
      submitButton  |-> [disabled |-> il,
                         text |-> IF il THEN "Entrando..." ELSE "Entrar"],
      handleSubmit  |-> [email |-> em, password |-> pw, remember |-> rm] ]

\* A render whose submit button is never disabled.
RenderButtonEnabled(il, em, pw, rm) ==
    [ emailInput    |-> [disabled |-> il, value |-> em],
      passwordInput |-> [disabled |-> il, value |-> pw],
      checkbox      |-> [disabled |-> il, checked |-> rm],
      submitButton  |-> [disabled |-> FALSE,
                         text |-> IF il THEN "Entrando..." ELSE "Entrar"],
      handleSubmit  |-> [email |-> em, password |-> pw, remember |-> rm] ]

\* A render whose button text follows the disabled inputs' content instead
\* of the loading flag alone.
RenderTextByFields(il, em, pw, rm) ==
    [ emailInput    |-> [disabled |-> il, value |-> em],
      passwordInput |-> [disabled |-> il, value |-> pw],
      checkbox      |-> [disabled |-> il, checked |-> rm],
      submitButton  |-> [disabled |-> il,
                         text |-> IF il /\ em # "" THEN "Entrando..." ELSE "Entrar"],
      handleSubmit  |-> [email |-> em, password |-> pw, remember |-> rm] ]

\* A render whose handleSubmit keeps the values of the first render (a
\* memoised handler with no dependencies).
RenderStaleClosure(il, em, pw, rm) ==
    [ emailInput    |-> [disabled |-> il, value |-> em],
      passwordInput |-> [disabled |-> il, value |-> pw],
      checkbox      |-> [disabled |-> il, checked |-> rm],
      submitButton  |-> [disabled |-> il,
                         text |-> IF il THEN "Entrando..." ELSE "Entrar"],
      handleSubmit  |-> [email |-> "", password |-> "", remember |-> FALSE] ]

\* LoginForm's return value for the state (il, em, pw, rm): the props of the
\* four controls and the state handleSubmit closes over.
Render(il, em, pw, rm) ==
    [ emailInput    |-> [disabled |-> il, value |-> em],
      passwordInput |-> [disabled |-> il, value |-> pw],
      checkbox      |-> [disabled |-> il, checked |-> rm],
      submitButton  |-> [disabled |-> il,
                         text |-> IF il THEN "Entrando..." ELSE "Entrar"],
      handleSubmit  |-> [email |-> em, password |-> pw, remember |-> rm] ]

-----------------------------------------------------------------------------
(* handleSubmit *)

\* One effect of submission sub.
Ev(sub, op, arg) == [sub |-> sub, op |-> op, arg |-> arg]

\* The value of isLoading after the setIsLoading calls among evs are applied
\* to il: updates of one handler run are batched, the last one wins.
RECURSIVE ApplySets(_, _)
ApplySets(il, evs) ==
    IF evs = <<>> THEN il
    ELSE ApplySets(IF Head(evs).op = "setIsLoading" THEN Head(evs).arg ELSE il,
                   Tail(evs))

\* A prologue that leaves the browser's default navigation in place.
PrologueNoPreventDefault(sub) ==
    << Ev(sub, "setIsLoading", TRUE) >>

\* e.preventDefault(); setIsLoading(true)
Prologue(sub) ==
    << Ev(sub, "preventDefault", "none"), Ev(sub, "setIsLoading", TRUE) >>

\* A try block that calls the handler twice.
CallOnSubmitTwice(sub, c) ==
    IF onSubmit = "handler"
    THEN << Ev(sub, "onSubmit", c), Ev(sub, "onSubmit", c) >>
    ELSE << >>

\* try { if (onSubmit) { await onSubmit({ email, password, remember }) } }:
\* the call, made with the values handleSubmit closed over.
CallOnSubmit(sub, c) ==
    IF onSubmit = "handler"
    THEN << Ev(sub, "onSubmit", [email |-> c.email, password |-> c.password,
                                  remember |-> c.remember]) >>
    ELSE << >>

\* A completion that resets the flag only when the try block succeeded.
CompletionNoFinally(sub, how) ==
    IF how = "rejected"
    THEN << Ev(sub, "throw", "none") >>
    ELSE << Ev(sub, "setIsLoading", FALSE), Ev(sub, "return", "none") >>

\* A completion that catches the error of the try block.
CompletionCatch(sub, how) ==
    << Ev(sub, "setIsLoading", FALSE), Ev(sub, "return", "none") >>

\* A completion that never resets the flag.
CompletionNoReset(sub, how) ==
    << Ev(sub, IF how = "rejected" THEN "throw" ELSE "return", "none") >>

\* finally { setIsLoading(false) }, then handleSubmit's promise is fulfilled
\* when the try block completed normally and rejected when it threw.
Completion(sub, how) ==
    << Ev(sub, "setIsLoading", FALSE),
       Ev(sub, IF how = "rejected" THEN "throw" ELSE "return", "none") >>

\* The submit event of the form: the button is the form's default button, so
\* neither a click on it nor implicit submission reaches the form while the
\* button is disabled.
CanSubmit == ~view.submitButton.disabled

\* The state after a handler run that performed the effects evs.
Commit(evs, em, pw, rm) ==
    /\ log' = log \o evs
    /\ isLoading' = ApplySets(isLoading, evs)
    /\ email' = em
    /\ password' = pw
    /\ remember' = rm
    /\ view' = Render(ApplySets(isLoading, evs), em, pw, rm)

\* A submit event, run to the first await or to the end of handleSubmit.
Submit ==
    /\ CanSubmit
    /\ nsub < MaxSubmits
    /\ nsub' = nsub + 1
    /\ UNCHANGED onSubmit
    /\ LET sub == nsub + 1
           c   == view.handleSubmit
       IN  \/ /\ onSubmit = "undefined"
              /\ Commit(Prologue(sub) \o CallOnSubmit(sub, c)
                            \o Completion(sub, "resolved"),
                        email, password, remember)
              /\ UNCHANGED inflight
           \/ /\ onSubmit = "handler"
              /\ Commit(Prologue(sub) \o CallOnSubmit(sub, c)
                            \o Completion(sub, "rejected"),
                        email, password, remember)
              /\ UNCHANGED inflight
           \/ /\ onSubmit = "handler"
              /\ Commit(Prologue(sub) \o CallOnSubmit(sub, c),
                        email, password, remember)
              /\ inflight' = inflight \cup {sub}

\* A continuation that clears the form once the handler has settled.
SettleClearsFields(sub, how) ==
    /\ sub \in inflight
    /\ inflight' = inflight \ {sub}
    /\ Commit(<< Ev(sub, "settled", how) >> \o Completion(sub, how),
              "", "", FALSE)
    /\ UNCHANGED <<onSubmit, nsub>>

\* The promise returned by onSubmit for submission sub settles and the rest
\* of handleSubmit runs.
Settle(sub, how) ==
    /\ sub \in inflight
    /\ inflight' = inflight \ {sub}
    /\ Commit(<< Ev(sub, "settled", how) >> \o Completion(sub, how),
              email, password, remember)
    /\ UNCHANGED <<onSubmit, nsub>>

-----------------------------------------------------------------------------
(* The controlled inputs *)

\* A change handler that also clears the password.
ChangeEmailClearsPassword(v) ==
    /\ ~view.emailInput.disabled
    /\ v # view.emailInput.value
    /\ Commit(<<>>, v, "", remember)
    /\ UNCHANGED <<onSubmit, inflight, nsub>>

\* onChange={(e) => setEmail(e.target.value)}
ChangeEmail(v) ==
    /\ ~view.emailInput.disabled
    /\ v # view.emailInput.value
    /\ Commit(<<>>, v, password, remember)
    /\ UNCHANGED <<onSubmit, inflight, nsub>>

\* onChange={(e) => setPassword(e.target.value)}
ChangePassword(v) ==
    /\ ~view.passwordInput.disabled
    /\ v # view.passwordInput.value
    /\ Commit(<<>>, email, v, remember)
    /\ UNCHANGED <<onSubmit, inflight, nsub>>

\* onCheckedChange={(checked) => setRemember(checked as boolean)}: a click on
\* the controlled checkbox reports the opposite of the checked prop.
ToggleRemember ==
    /\ ~view.checkbox.disabled
    /\ Commit(<<>>, email, password, ~view.checkbox.checked)
    /\ UNCHANGED <<onSubmit, inflight, nsub>>

-----------------------------------------------------------------------------

\* The first render: LoginPage passes no onSubmit, another parent may.
Init ==
    /\ onSubmit \in {"undefined", "handler"}
    /\ isLoading = FALSE
    /\ email = ""
    /\ password = ""
    /\ remember = FALSE
    /\ view = Render(FALSE, "", "", FALSE)
    /\ inflight = {}
    /\ nsub = 0
    /\ log = << >>

Next ==
    \/ Submit
    \/ \E sub \in 1..MaxSubmits, how \in Outcomes : Settle(sub, how)
    \/ \E v \in Emails : ChangeEmail(v)
    \/ \E v \in Passwords : ChangePassword(v)
    \/ ToggleRemember

Spec == Init /\ [][Next]_vars

\* Every pending onSubmit promise eventually settles.
LiveSpec == Spec /\ WF_vars(\E sub \in 1..MaxSubmits, how \in Outcomes : Settle(sub, how))

-----------------------------------------------------------------------------
(* Views of the effect log *)

\* The effects of submission sub, in order.
EvsOf(sub) == SelectSeq(log, LAMBDA e : e.sub = sub)

\* The onSubmit calls among evs.
CallsIn(evs) == SelectSeq(evs, LAMBDA e : e.op = "onSubmit")

\* The operations of evs, without their arguments.
Ops(evs) == [i \in 1..Len(evs) |-> evs[i].op]

\* Whether evs[i] is setIsLoading(b).
IsSet(evs, i, b) ==
    /\ i \in 1..Len(evs)
    /\ evs[i].op = "setIsLoading"
    /\ evs[i].arg = b

\* Whether the log records a settlement of kind how.
HasSettled(how) ==
    \E i \in 1..Len(log) : log[i].op = "settled" /\ log[i].arg = how

\* The state of the three fields as the argument object of onSubmit.
CurrentValues == [email |-> email, password |-> password, remember |-> remember]

-----------------------------------------------------------------------------
(* Properties *)

\* C1: with a handler supplied, every submit event makes exactly one
\* onSubmit call, whose argument is {email, password, remember} as the state
\* holds them at the moment of the submit; no other step calls the handler.
C1_SubmitCallsHandlerOnce ==
    [][ LET new == SubSeq(log', Len(log) + 1, Len(log'))
            calls == CallsIn(new)
        IN  IF nsub' # nsub /\ onSubmit = "handler"
            THEN /\ Len(calls) = 1
                 /\ calls[1].sub = nsub'
                 /\ calls[1].arg = CurrentValues
            ELSE calls = << >> ]_vars

\* C1 witness: the handler has received {a@b.com, secret, true}.
C1_Witness ==
    \E i \in 1..Len(log) :
        /\ log[i].op = "onSubmit"
        /\ log[i].arg = [email |-> "a@b.com", password |-> "secret", remember |-> TRUE]

\* C2: isLoading is true exactly while an onSubmit call made by handleSubmit
\* has not settled; once every call has resolved or rejected it is false.
C2_LoadingIffPending == isLoading <=> (inflight # {})

\* C2 witness: a call has rejected, nothing is pending and the flag is down.
C2_Witness == HasSettled("rejected") /\ inflight = {} /\ ~isLoading

\* C3: at most one onSubmit call is pending at any time.
C3_AtMostOnePending == Cardinality(inflight) <= 1

\* C3 witness: a second submission is pending after the first has settled.
C3_Witness == nsub = 2 /\ inflight = {2} /\ HasSettled("resolved")

\* C4: a rejection of the handler is not caught: every rejected settlement
\* is followed by setIsLoading(false) and then by the rejection of
\* handleSubmit, never by a normal return; every rejection of handleSubmit
\* comes directly after setIsLoading(false); the component is not loading
\* when handleSubmit has just rejected.
C4_RejectionPropagatesAfterReset ==
    /\ \A i \in 1..Len(log) :
          (log[i].op = "settled" /\ log[i].arg = "rejected") =>
              /\ IsSet(log, i + 1, FALSE)
              /\ i + 2 <= Len(log)
              /\ log[i + 2].op = "throw"
              /\ log[i + 2].sub = log[i].sub
              /\ \A j \in 1..Len(log) :
                    log[j].sub = log[i].sub => log[j].op # "return"
    /\ \A i \in 1..Len(log) :
          log[i].op = "throw" => IsSet(log, i - 1, FALSE) /\ log[i - 1].sub = log[i].sub
    /\ (log # << >> /\ log[Len(log)].op = "throw") => ~isLoading

\* C4 witness: the handler's promise rejected and handleSubmit has thrown.
C4_Witness ==
    /\ HasSettled("rejected")
    /\ log[Len(log)].op = "throw"
    /\ ~isLoading

\* C5: without a handler every submission is preventDefault,
\* setIsLoading(true), setIsLoading(false) and a normal return, calls
\* nothing, and leaves isLoading false with nothing pending.
C5_NoHandlerSubmission ==
    onSubmit = "undefined" =>
        /\ ~isLoading
        /\ inflight = {}
        /\ \A sub \in 1..nsub :
              LET evs == EvsOf(sub)
              IN  /\ Ops(evs) = << "preventDefault", "setIsLoading", "setIsLoading", "return" >>
                  /\ IsSet(evs, 2, TRUE)
                  /\ IsSet(evs, 3, FALSE)

\* C5 witness: the form was submitted with no handler supplied.
C5_Witness == onSubmit = "undefined" /\ nsub >= 1 /\ log # << >>

\* C6: the email input, the password input, the remember checkbox and the
\* submit button are each disabled exactly when isLoading is true.
C6_DisabledIffLoading ==
    /\ view.emailInput.disabled = isLoading
    /\ view.passwordInput.disabled = isLoading
    /\ view.checkbox.disabled = isLoading
    /\ view.submitButton.disabled = isLoading

\* C6 witness: the form is loading and all four controls are disabled.
C6_Witness ==
    /\ isLoading
    /\ view.emailInput.disabled
    /\ view.passwordInput.disabled
    /\ view.checkbox.disabled
    /\ view.submitButton.disabled

\* C7: a step that changes remember sets it to the value the checkbox
\* reports and changes none of email, password and isLoading; a step that
\* changes email changes none of password, remember and isLoading; a step
\* that changes password changes none of email, remember and isLoading.
C7_ChangeHandlersFrame ==
    [][ /\ remember' # remember =>
              /\ remember' = ~view.checkbox.checked
              /\ UNCHANGED <<email, password, isLoading>>
        /\ email' # email => UNCHANGED <<password, remember, isLoading>>
        /\ password' # password => UNCHANGED <<email, remember, isLoading>> ]_vars

\* C7 witness: the checkbox was ticked and the text fields are still empty.
C7_Witness == remember /\ email = "" /\ password = "" /\ ~isLoading /\ nsub = 0

\* C8: the button reads "Entrando..." exactly while a handler call is
\* pending and "Entrar" otherwise, and is determined by isLoading alone.
C8_ButtonText ==
    /\ view.submitButton.text = IF inflight # {} THEN "Entrando..." ELSE "Entrar"
    /\ view.submitButton.text = IF isLoading THEN "Entrando..." ELSE "Entrar"

\* C8 witness: the button reads "Entrando..." while a call is pending with
\* an empty email field.
C8_Witness ==
    /\ view.submitButton.text = "Entrando..."
    /\ inflight # {}
    /\ email = ""

\* C9: no step of handleSubmit (the submit event, the settlement) changes
\* email, password or remember, and nothing changes them while a call is
\* pending; when a call settles the fields still hold the values it was
\* called with.
C9_SubmissionKeepsFields ==
    [][ /\ (log' # log \/ inflight # {}) => UNCHANGED fields
        /\ \A sub \in inflight \ inflight' :
              CallsIn(EvsOf(sub))[1].arg =
                  [email |-> email', password |-> password', remember |-> remember'] ]_vars

\* C9 witness: a call made with a password has settled and the password is
\* still in the field.
C9_Witness ==
    /\ HasSettled("resolved")
    /\ inflight = {}
    /\ password = "secret"
    /\ log[Len(log)].op = "return"

\* C10: if every pending call eventually settles, a loading form eventually
\* stops loading and its submit button is enabled again; rendered without a
\* handler, as on the login page, the form never loads and never calls one.
C10_SubmissionTerminates ==
    /\ isLoading ~> (~isLoading /\ CanSubmit)
    /\ [](onSubmit = "undefined" => (~isLoading /\ CanSubmit /\ CallsIn(log) = << >>))

\* C10 witness: both submissions have completed and the form can be
\* submitted again.
C10_Witness ==
    /\ nsub = MaxSubmits
    /\ inflight = {}
    /\ ~isLoading
    /\ CanSubmit
    /\ HasSettled("rejected")

=============================================================================
